---- MODULE Spec2Model ----
(***************************************************************************)
(* PosterFlow: the credential store (SQLite table `users`), the OAuth      *)
(* helper's anti-forgery state file, the token lifecycle                   *)
(* (get_valid_credentials), the Drive upload (upload_image_to_drive and    *)
(* the save loop of app.py) and the print-size geometry                    *)
(* (square_to_portrait), modelled from google_drive.py, oauth_helper.py    *)
(* and app.py.                                                             *)
(*                                                                         *)
(* Every sqlite3 transaction (connect .. commit) is one atomic step.       *)
(* get_valid_credentials opens two transactions (SELECT, later UPDATE)     *)
(* with a network call in between, so it is three steps that interleave    *)
(* with the other operations (the Flask helper and the Streamlit app are   *)
(* two processes on one users.db).                                         *)
(*                                                                         *)
(* Spec       the store and the token lifecycle, interleaved.              *)
(* SpecUpload upload_image_to_drive and the save loop over a store that    *)
(*            no other process touches meanwhile.                          *)
(* SpecGeom   square_to_portrait on sources of bounded sizes, its float    *)
(*            arithmetic computed as IEEE-754 binary64 does.               *)
(* SpecHelper the routes of the OAuth helper, requests and responses kept. *)
(* SpecExport make_print_variants and the ZIP export of app.py.            *)
(***************************************************************************)
EXTENDS Integers, Sequences, FiniteSets, TLC

\* ---------------------------------------------------------------- bounds

\* Cap on the AUTOINCREMENT counter: no INSERT is attempted beyond it.
MaxId == 2

\* ------------------------------------------------------------ value sets

\* SQL NULL / Python None.
NULL == "NULL"

\* Identities (email addresses) that authorize against the application.
Emails == {"ann@x.org", "bob@x.org"}

\* Opaque access tokens issued by the authorization server.
AccessTokens == {"at1", "at2"}

\* Opaque refresh tokens issued by the authorization server.
RefreshTokens == {"rt1"}

\* OAuth anti-forgery state values produced by flow.authorization_url().
States == {"s1", "s2"}

\* email.split('@')[0]
LocalPart(email) == IF email = "ann@x.org" THEN "ann" ELSE "bob"

\* The userinfo endpoint's JSON for an identity: name and picture are
\* optional keys (NULL stands for an absent key).
IdInfos(email) ==
    { [email |-> email, name |-> "Full Name", picture |-> "pic.png"],
      [email |-> email, name |-> NULL,        picture |-> NULL] }

\* id_info.get(key, default)
DictGet(value, default) == IF value = NULL THEN default ELSE value

\* Python truthiness of an optional string (None and "" are falsy).
Truthy(s) == s # NULL /\ s # ""

\* ----------------------------------------------------------------- state

VARIABLES
    users,        \* rows of table users: [id, email, name, picture, access_token, refresh_token]
    seq,          \* sqlite_sequence for users: the greatest id ever assigned
    oauth_state,  \* contents of oauth_state.txt, NULL when the file is absent
    pc,           \* position of the get_valid_credentials call in flight
    creds,        \* its local variables: email, token, refresh_token, refresh calls
    last,         \* the operation that completed last, its inputs and its result
    folder_id,    \* the module-level setting GDRIVE_FOLDER_ID of google_drive.py
    up,           \* the last upload_image_to_drive call: its inputs and what it did
    result,       \* the dict that call returned
    batch,        \* the "Save Selected Images" loop of app.py: its local variables
    geom,         \* a square_to_portrait call: its arguments and what it returned
    http,         \* the last request the helper answered, its response, and
                  \* the parity of the number of requests answered
    variants,     \* the last make_print_variants call: its input and what left it
    export        \* the last run of "Export selected as ZIP" of app.py

\* The variables the credential-store operations leave alone.
others == <<folder_id, up, result, batch, geom, http, variants, export>>

vars == <<users, seq, oauth_state, pc, creds, last, folder_id, up, result, batch, geom,
          http, variants, export>>

NoCreds == [email |-> NULL, token |-> NULL, refresh_token |-> NULL, calls |-> 0]

\* GDRIVE_FOLDER_ID as shipped.
GDRIVE_FOLDER_ID == "1b068Va7q94iVtGEU-h-hfN_VQfBSTsDT"

\* No upload_image_to_drive call has been made yet.
NoUpload ==
    [done |-> FALSE, email |-> NULL, filename |-> NULL, resolved |-> "none",
     refreshes |-> 0, posts |-> 0, parents |-> NULL, status |-> 0,
     text |-> NULL, json |-> FALSE, id |-> NULL, raised |-> FALSE]

\* No dict has been returned yet.
NoResult == [none |-> TRUE]

\* The save button of app.py has not been pressed.
NoBatch ==
    [pc |-> "idle", user_email |-> NULL, selected |-> <<>>, i |-> 0,
     success_count |-> 0, log |-> <<>>]

\* No square_to_portrait call is in progress.
NoGeom ==
    [pc |-> "idle", w |-> 0, h |-> 0, size |-> NULL, resized |-> <<>>,
     canvas |-> <<>>, at |-> <<>>]

\* The helper has answered no request yet.
NoHttp ==
    [serial |-> 0, route |-> NULL, stored_state |-> NULL,
     request_state |-> NULL, status |-> 0, body |-> NULL]

\* make_print_variants has not been called yet.
NoVariants ==
    [done |-> FALSE, png |-> [ok |-> FALSE, w |-> 0, h |-> 0, save_fails |-> NULL],
     out |-> [raised |-> FALSE, value |-> <<>>]]

\* The export button has not been pressed yet.
NoExport ==
    [done |-> FALSE, selected |-> <<>>, images |-> <<>>, raised |-> FALSE,
     zip |-> <<>>, download |-> <<>>, message |-> NULL]

\* The record kept of the last completed operation.
Done(op, email, path, existed, at, rt, calls) ==
    [op |-> op, email |-> email, path |-> path, existed |-> existed,
     at |-> at, rt |-> rt, calls |-> calls]

\* ------------------------------------------------------------ SQL helpers

\* Whether a row with this email exists (the UNIQUE constraint's test).
HasEmail(tbl, email) == \E r \in tbl : r.email = email

\* Mutant: a plain INSERT into a table whose email column is not UNIQUE.
InsertAlways(tbl, sq, email, name, picture, at, rt) ==
    tbl \cup { [id |-> sq + 1, email |-> email, name |-> name,
                picture |-> picture, access_token |-> at,
                refresh_token |-> rt] }

\* Mutant: the id column is a plain INTEGER PRIMARY KEY (no AUTOINCREMENT):
\* a new row takes the greatest id present plus one.
InsertOrIgnoreRowid(tbl, sq, email, name, picture, at, rt) ==
    IF HasEmail(tbl, email)
    THEN tbl
    ELSE LET top == IF tbl = {} THEN 0
                    ELSE (CHOOSE r \in tbl : \A q \in tbl : q.id <= r.id).id
         IN  tbl \cup { [id |-> top + 1, email |-> email, name |-> name,
                         picture |-> picture, access_token |-> at,
                         refresh_token |-> rt] }

\* INSERT OR IGNORE INTO users (email, name, picture, access_token, refresh_token):
\* ignored when the UNIQUE email exists, else a row with the next AUTOINCREMENT id.
InsertOrIgnore(tbl, sq, email, name, picture, at, rt) ==
    IF HasEmail(tbl, email)
    THEN tbl
    ELSE tbl \cup { [id |-> sq + 1, email |-> email, name |-> name,
                     picture |-> picture, access_token |-> at,
                     refresh_token |-> rt] }

\* sqlite_sequence after that INSERT OR IGNORE.
NextSeq(tbl, sq, email) == IF HasEmail(tbl, email) THEN sq ELSE sq + 1

\* Mutant: the UPDATE forgets the refresh_token column.
UpdateTokensAccessOnly(tbl, email, at, rt) ==
    { IF r.email = email THEN [r EXCEPT !.access_token = at] ELSE r : r \in tbl }

\* UPDATE users SET access_token=?, refresh_token=? WHERE email=?
UpdateTokens(tbl, email, at, rt) ==
    { IF r.email = email
      THEN [r EXCEPT !.access_token = at, !.refresh_token = rt]
      ELSE r : r \in tbl }

\* UPDATE users SET access_token=?, refresh_token=?, name=?, picture=? WHERE email=?
UpdateTokensAndProfile(tbl, email, at, rt, name, picture) ==
    { IF r.email = email
      THEN [r EXCEPT !.access_token = at, !.refresh_token = rt,
                     !.name = name, !.picture = picture]
      ELSE r : r \in tbl }

\* Mutant: the UPDATE has no WHERE clause.
UpdateAccessTokenNoWhere(tbl, email, at) ==
    { [r EXCEPT !.access_token = at] : r \in tbl }

\* Mutant: the second transaction is an upsert (a missing row is inserted).
UpdateAccessTokenOrInsert(tbl, email, at) ==
    IF \E r \in tbl : r.email = email
    THEN { IF r.email = email THEN [r EXCEPT !.access_token = at] ELSE r : r \in tbl }
    ELSE tbl \cup { [id |-> Cardinality(tbl) + 1, email |-> email, name |-> NULL,
                     picture |-> NULL, access_token |-> at,
                     refresh_token |-> NULL] }

\* UPDATE users SET access_token=? WHERE email=?
UpdateAccessToken(tbl, email, at) ==
    { IF r.email = email THEN [r EXCEPT !.access_token = at] ELSE r : r \in tbl }

\* Mutant: the DELETE has no WHERE clause.
DeleteNoWhere(tbl, email) == {}

\* DELETE FROM users WHERE email=?
DeleteWhereEmail(tbl, email) == { r \in tbl : r.email # email }

\* Mutant: the SELECT has no WHERE clause (fetchone() takes the first row).
SelectTokensNoWhere(tbl, email) ==
    IF tbl # {}
    THEN LET r == CHOOSE r \in tbl : \A q \in tbl : r.id <= q.id
         IN  <<r.access_token, r.refresh_token>>
    ELSE NULL

\* SELECT access_token, refresh_token FROM users WHERE email=? ; fetchone()
SelectTokens(tbl, email) ==
    IF HasEmail(tbl, email)
    THEN LET r == CHOOSE r \in tbl : r.email = email
         IN  <<r.access_token, r.refresh_token>>
    ELSE NULL

\* Mutant: ORDER BY id (ascending).
RECURSIVE OrderByIdAsc(_)
OrderByIdAsc(tbl) ==
    IF tbl = {} THEN <<>>
    ELSE LET top == CHOOSE r \in tbl : \A q \in tbl : r.id <= q.id
         IN  <<top>> \o OrderByIdAsc(tbl \ {top})

\* The rows in ORDER BY id DESC order.
RECURSIVE OrderByIdDesc(_)
OrderByIdDesc(tbl) ==
    IF tbl = {} THEN <<>>
    ELSE LET top == CHOOSE r \in tbl : \A q \in tbl : q.id <= r.id
         IN  <<top>> \o OrderByIdDesc(tbl \ {top})

\* SELECT email FROM users ORDER BY id DESC LIMIT 1 ; row[0] if row else None
get_authenticated_user ==
    LET rows == OrderByIdDesc(users)
    IN  IF rows = <<>> THEN NULL ELSE rows[1].email

\* ------------------------------------------------------------------ Init

Init ==
    /\ users = {}
    /\ seq = 0
    /\ oauth_state = NULL
    /\ pc = "idle"
    /\ creds = NoCreds
    /\ last = Done("init", NULL, "ok", FALSE, NULL, NULL, 0)
    /\ folder_id = GDRIVE_FOLDER_ID
    /\ up = NoUpload
    /\ result = NoResult
    /\ batch = NoBatch
    /\ geom = NoGeom
    /\ http = NoHttp
    /\ variants = NoVariants
    /\ export = NoExport

\* --------------------------------------------------------- upsert handlers

\* Mutant: INSERT OR REPLACE (the old row is deleted, a new one inserted).
UpsertWithProfileReplace(tbl, sq, id_info, at, rt) ==
    { r \in tbl : r.email # id_info.email } \cup
    { [id |-> sq + 1, email |-> id_info.email,
       name |-> DictGet(id_info.name, LocalPart(id_info.email)),
       picture |-> DictGet(id_info.picture, ""),
       access_token |-> at, refresh_token |-> rt] }

\* The two-statement upsert of the helper, Streamlit and manual callbacks:
\* INSERT OR IGNORE, then UPDATE of tokens, name and picture, one transaction.
UpsertWithProfile(tbl, sq, id_info, at, rt) ==
    UpdateTokensAndProfile(
        InsertOrIgnore(tbl, sq, id_info.email,
                       DictGet(id_info.name, LocalPart(id_info.email)),
                       DictGet(id_info.picture, ""), at, rt),
        id_info.email, at, rt,
        DictGet(id_info.name, LocalPart(id_info.email)),
        DictGet(id_info.picture, ""))

\* Mutant: handle_oauth_callback's UPDATE also sets name and picture.
UpsertTokensOnlyProfileToo(tbl, sq, id_info, at, rt) ==
    UpsertWithProfile(tbl, sq, id_info, at, rt)

\* The two-statement upsert of handle_oauth_callback: INSERT OR IGNORE with
\* id_info.get("name") / id_info.get("picture"), then UPDATE of the tokens only.
UpsertTokensOnly(tbl, sq, id_info, at, rt) ==
    UpdateTokens(
        InsertOrIgnore(tbl, sq, id_info.email, id_info.name, id_info.picture, at, rt),
        id_info.email, at, rt)

\* The state test of the helper's /callback:
\* `if stored_state and stored_state != request_state` rejects the request.
StateRejected(stored_state, request_state) ==
    Truthy(stored_state) /\ stored_state # request_state

\* GET /start_oauth of the helper: writes the new state to oauth_state.txt
\* (nothing happens when client_secret.json is missing: HTTP 500).
start_oauth ==
    \/ /\ http' = [serial |-> 1 - http.serial, route |-> "/start_oauth", stored_state |-> oauth_state,
                   request_state |-> NULL, status |-> 500,
                   body |-> "Error: Could not create OAuth flow"]
       /\ UNCHANGED <<users, seq, oauth_state, pc, creds, last, folder_id, up,
                      result, batch, geom, variants, export>>
    \/ \E state \in States :
        /\ oauth_state' = state
        /\ http' = [serial |-> 1 - http.serial, route |-> "/start_oauth", stored_state |-> oauth_state,
                    request_state |-> state, status |-> 302,
                    body |-> "authorization_url"]
        /\ UNCHANGED <<users, seq, pc, creds, last, folder_id, up, result,
                       batch, geom, variants, export>>

\* GET /callback of the helper.  It ends without any effect when the state
\* test rejects the request, and when get_oauth_flow() returns None,
\* fetch_token raises or the userinfo request is not 200 (first disjunct);
\* otherwise it upserts the record and removes oauth_state.txt.
callback ==
    \/ UNCHANGED vars
    \/ \E email \in Emails, at \in AccessTokens, rt \in RefreshTokens \cup {NULL} :
         \E id_info \in IdInfos(email) :
           /\ ~(\A request_state \in States \cup {NULL} :
                    StateRejected(oauth_state, request_state))
           /\ HasEmail(users, email) \/ seq < MaxId
           /\ users' = UpsertWithProfile(users, seq, id_info, at, rt)
           /\ seq' = NextSeq(users, seq, email)
           /\ oauth_state' = NULL
           /\ last' = Done("callback", email, "ok", HasEmail(users, email), at, rt, 0)
           /\ UNCHANGED <<pc, creds, others>>

\* handle_streamlit_oauth_callback: returns False without any effect when
\* `code` or `state` is missing from the query string or a remote call fails.
\* st.session_state["oauth_state"] is never assigned, so the stored state is
\* None and its state test never rejects.
handle_streamlit_oauth_callback ==
    \/ UNCHANGED vars
    \/ \E email \in Emails, at \in AccessTokens, rt \in RefreshTokens \cup {NULL} :
         \E id_info \in IdInfos(email) :
           /\ HasEmail(users, email) \/ seq < MaxId
           /\ users' = UpsertWithProfile(users, seq, id_info, at, rt)
           /\ seq' = NextSeq(users, seq, email)
           /\ last' = Done("streamlit_callback", email, "ok",
                           HasEmail(users, email), at, rt, 0)
           /\ UNCHANGED <<oauth_state, pc, creds, others>>

\* handle_manual_oauth_callback(callback_url): no state test at all; returns
\* False without any effect when the URL has no code or a remote call fails.
handle_manual_oauth_callback ==
    \/ UNCHANGED vars
    \/ \E email \in Emails, at \in AccessTokens, rt \in RefreshTokens \cup {NULL} :
         \E id_info \in IdInfos(email) :
           /\ HasEmail(users, email) \/ seq < MaxId
           /\ users' = UpsertWithProfile(users, seq, id_info, at, rt)
           /\ seq' = NextSeq(users, seq, email)
           /\ last' = Done("manual_callback", email, "ok",
                           HasEmail(users, email), at, rt, 0)
           /\ UNCHANGED <<oauth_state, pc, creds, others>>

\* handle_oauth_callback(authorization_response, state): returns False
\* without any effect when a remote call fails.
handle_oauth_callback ==
    \/ UNCHANGED vars
    \/ \E email \in Emails, at \in AccessTokens, rt \in RefreshTokens \cup {NULL} :
         \E id_info \in IdInfos(email) :
           /\ HasEmail(users, email) \/ seq < MaxId
           /\ users' = UpsertTokensOnly(users, seq, id_info, at, rt)
           /\ seq' = NextSeq(users, seq, email)
           /\ last' = Done("handle_oauth_callback", email, "ok",
                           HasEmail(users, email), at, rt, 0)
           /\ UNCHANGED <<oauth_state, pc, creds, others>>

\* The manual-token upsert: INSERT OR IGNORE with name = email.split('@')[0]
\* and picture = "", then UPDATE of the tokens only.
UpsertManual(tbl, sq, email, at, rt) ==
    UpdateTokens(InsertOrIgnore(tbl, sq, email, LocalPart(email), "", at, rt),
                 email, at, rt)

\* save_manual_tokens(email, access_token, refresh_token): the form passes a
\* non-empty email and access token; a blank refresh field is "".
save_manual_tokens ==
    \E email \in Emails, at \in AccessTokens, rt \in RefreshTokens \cup {""} :
        /\ HasEmail(users, email) \/ seq < MaxId
        /\ users' = UpsertManual(users, seq, email, at, rt)
        /\ seq' = NextSeq(users, seq, email)
        /\ last' = Done("save_manual_tokens", email, "ok", HasEmail(users, email), at, rt, 0)
        /\ UNCHANGED <<oauth_state, pc, creds, others>>

\* ------------------------------------------------------- delete handlers

\* The Logout buttons: DELETE the row of the identity shown as authenticated.
Logout ==
    /\ get_authenticated_user # NULL
    /\ users' = DeleteWhereEmail(users, get_authenticated_user)
    /\ last' = Done("logout", get_authenticated_user, "ok", TRUE, NULL, NULL, 0)
    /\ UNCHANGED <<seq, oauth_state, pc, creds, others>>

\* The "Clear All Users" button (shown only when authenticated): DELETE FROM users.
ClearAllUsers ==
    /\ get_authenticated_user # NULL
    /\ users' = {}
    /\ last' = Done("clear_all_users", NULL, "ok", FALSE, NULL, NULL, 0)
    /\ UNCHANGED <<seq, oauth_state, pc, creds, others>>

\* GET /clear_users of the helper: DELETE FROM users.
clear_users ==
    /\ users' = {}
    /\ last' = Done("clear_users", NULL, "ok", FALSE, NULL, NULL, 0)
    /\ UNCHANGED <<seq, oauth_state, pc, creds, others>>

\* ------------------------------------------- get_valid_credentials(email)

\* The test before the refresh: `creds.expired and creds.refresh_token`.
\* `expired` is the OAuth client library's own answer, an input here.
NeedsRefresh(expired, refresh_token) == expired /\ Truthy(refresh_token)

\* Mutant: the UPDATE's parameters are mixed up (the refresh token is written).
TokenToPersistMixedUp(c) == c.refresh_token

\* The access token the second transaction writes: creds.token after refresh.
TokenToPersist(c) == c.token

\* First transaction and the code up to the second one: SELECT the tokens,
\* load the client secret (`secret_ok` is FALSE when that raises), build the
\* Credentials, then return them or run the refresh exchange creds.refresh().
\* A RefreshError (`remote_ok` FALSE) is caught, logged and None is returned.
\* The exchange touches no shared state, so it is taken in the same step as
\* the SELECT; the UPDATE is a later transaction and a separate step.
get_valid_credentials_load ==
    \E email \in Emails, secret_ok \in BOOLEAN, expired \in BOOLEAN,
       remote_ok \in BOOLEAN, new_token \in AccessTokens :
      LET row == SelectTokens(users, email) IN
        /\ pc = "idle"
        /\ IF row = NULL
           THEN /\ last' = Done("resolve", email, "no_record", FALSE, NULL, NULL, 0)
                /\ UNCHANGED <<pc, creds>>
           ELSE IF ~secret_ok
           THEN /\ last' = Done("resolve", email, "exception", TRUE, NULL, NULL, 0)
                /\ UNCHANGED <<pc, creds>>
           ELSE IF ~NeedsRefresh(expired, row[2])
           THEN /\ last' = Done("resolve", email,
                                IF expired THEN "expired_no_refresh" ELSE "valid",
                                TRUE, row[1], row[2], 0)
                /\ UNCHANGED <<pc, creds>>
           ELSE IF ~remote_ok
           THEN /\ last' = Done("resolve", email, "refresh_failed", TRUE, NULL, NULL, 1)
                /\ UNCHANGED <<pc, creds>>
           ELSE /\ pc' = "persist"
                /\ creds' = [email |-> email, token |-> new_token,
                             refresh_token |-> row[2], calls |-> 1]
                /\ UNCHANGED last
        /\ UNCHANGED <<users, seq, oauth_state, others>>

\* Second transaction: UPDATE users SET access_token=? WHERE email=?, then
\* return the refreshed Credentials.
get_valid_credentials_persist ==
    /\ pc = "persist"
    /\ users' = UpdateAccessToken(users, creds.email, TokenToPersist(creds))
    /\ pc' = "idle"
    /\ creds' = NoCreds
    /\ last' = Done("resolve", creds.email, "refreshed", TRUE,
                    creds.token, creds.refresh_token, creds.calls)
    /\ UNCHANGED <<seq, oauth_state, others>>

\* ---------------------------------------------------------- specification

\* The credential store and the token lifecycle: every handler that reads or
\* writes table users.  /start_oauth is not called, so oauth_state.txt stays
\* absent and /callback's state test passes.
Next ==
    \/ callback
    \/ handle_streamlit_oauth_callback
    \/ handle_manual_oauth_callback
    \/ handle_oauth_callback
    \/ save_manual_tokens
    \/ Logout
    \/ ClearAllUsers
    \/ clear_users
    \/ get_valid_credentials_load
    \/ get_valid_credentials_persist

Spec == Init /\ [][Next]_vars

\* ------------------------------------------------------------ properties

\* The operations that upsert a CredentialRecord.
UpsertOps == {"callback", "streamlit_callback", "manual_callback",
              "handle_oauth_callback", "save_manual_tokens"}

\* The upsert handlers whose UPDATE sets the tokens only.
TokensOnlyOps == {"handle_oauth_callback", "save_manual_tokens"}

\* A step of an upsert handler that reached its transaction.
UpsertStep == last'.op \in UpsertOps /\ pc' = pc

\* A step of get_valid_credentials(email): its first transaction (which
\* returns, or goes on to the second one) or its second transaction.
LoadStep(email) ==
    /\ pc = "idle"
    /\ \/ pc' = "persist" /\ creds'.email = email
       \/ pc' = "idle" /\ last'.op = "resolve" /\ last'.email = email
ResolveStep == pc' # pc \/ last'.op = "resolve"

\* C1: the users table never holds two records with the same email, whatever
\* sequence of upserts, token refreshes, logouts and clear-alls has run; in
\* particular an upsert for an identity that already has a record adds no row.
C1_UniqueIdentity ==
    /\ \A r1 \in users, r2 \in users : r1.email = r2.email => r1 = r2
    /\ Cardinality({ r.email : r \in users }) = Cardinality(users)

\* C1 witness: an upsert has just run for an identity that already had a
\* record, beside the record of another identity.
C1_Witness ==
    /\ last.op \in UpsertOps
    /\ last.existed
    /\ HasEmail(users, last.email)
    /\ Cardinality(users) = 2

\* C2: get_authenticated_user returns the email of the record with the
\* greatest id, returns None exactly when the table is empty, and right after
\* an upsert that inserted a record it returns the inserted identity.
C2_CurrentIsGreatestId ==
    /\ get_authenticated_user = NULL <=> users = {}
    /\ users # {} =>
         \E r \in users : /\ r.email = get_authenticated_user
                          /\ \A q \in users : q.id <= r.id
    /\ (last.op \in UpsertOps /\ ~last.existed) =>
         get_authenticated_user = last.email

\* C2 witness: B has just been inserted into a table that held A, and
\* get_authenticated_user returns B.
C2_Witness ==
    /\ last.op \in UpsertOps
    /\ ~last.existed
    /\ Cardinality(users) = 2
    /\ get_authenticated_user = last.email

\* C3 (as claimed): after every successful upsert for an identity X, whether
\* X was new or already had a record, get_authenticated_user returns X.
C3_LastWriterWins ==
    last.op \in UpsertOps => get_authenticated_user = last.email

\* C4 (as claimed): on every upsert path an upsert for an identity that
\* already has a record leaves its name and picture as they were and
\* overwrites its access and refresh token with the new values.
C4_ProfilePreservedOnEveryPath ==
    [][UpsertStep =>
        \A r \in users : r.email = last'.email =>
            [r EXCEPT !.access_token = last'.at, !.refresh_token = last'.rt]
                \in users']_vars

\* C4 (amended): an upsert for an identity that already has a record keeps
\* the record id and overwrites the access and refresh token on every path;
\* name and picture are left as they were by handle_oauth_callback and
\* save_manual_tokens, and are overwritten with the new user info's name and
\* picture (defaults: the email's local part, "") by the helper /callback,
\* the Streamlit callback and the manual callback.
C4_ProfilePreservedOnTokensOnlyPaths ==
    [][UpsertStep =>
        \A r \in users : r.email = last'.email =>
            IF last'.op \in TokensOnlyOps
            THEN [r EXCEPT !.access_token = last'.at, !.refresh_token = last'.rt]
                     \in users'
            ELSE \E id_info \in IdInfos(r.email) :
                     [r EXCEPT !.access_token = last'.at,
                               !.refresh_token = last'.rt,
                               !.name = DictGet(id_info.name, LocalPart(r.email)),
                               !.picture = DictGet(id_info.picture, "")]
                         \in users']_vars

\* C4 witness: handle_oauth_callback has just re-authorized an identity whose
\* record still carries the name and picture another path inserted.
C4_Witness ==
    /\ last.op = "handle_oauth_callback"
    /\ last.existed
    /\ \E r \in users : /\ r.email = last.email
                        /\ r.name = LocalPart(r.email)
                        /\ r.picture = ""
                        /\ r.access_token = last.at

\* C5: right after an upsert of (identity, access token, refresh token) the
\* SELECT of get_valid_credentials returns exactly that pair, whether or not
\* the identity had a record before.
C5_UpsertThenGet ==
    last.op \in UpsertOps =>
        SelectTokens(users, last.email) = <<last.at, last.rt>>

\* C5 witness: save_manual_tokens has just run on an identity that already
\* had a record, with a blank refresh token.
C5_Witness ==
    /\ last.op = "save_manual_tokens"
    /\ last.existed
    /\ last.rt = ""
    /\ SelectTokens(users, last.email) = <<last.at, "">>

\* C6: Logout removes the record of the logged-out identity and nothing
\* else: every other record is still there, unchanged in every column.
C6_LogoutRemovesOnlyThatIdentity ==
    [][last'.op = "logout" =>
        /\ \A r \in users : r.email # last'.email => r \in users'
        /\ \A r \in users' : r \in users /\ r.email # last'.email]_vars

\* C6 witness: a logout has just run and another identity's record is left.
C6_Witness ==
    /\ last.op = "logout"
    /\ users # {}
    /\ ~HasEmail(users, last.email)

\* C7: get_valid_credentials on an identity without a record returns None,
\* runs no refresh exchange and leaves the table unchanged.
C7_NoRecordNoCredentials ==
    [][\A email \in Emails :
        (LoadStep(email) /\ ~HasEmail(users, email)) =>
            /\ pc' = "idle"
            /\ last'.path = "no_record"
            /\ last'.at = NULL
            /\ last'.calls = 0
            /\ users' = users]_vars

\* C7 witness: the call has just returned None for an identity without a
\* record while another identity has one.
C7_Witness ==
    /\ last.op = "resolve"
    /\ last.path = "no_record"
    /\ last.at = NULL
    /\ users # {}

\* C8 (as claimed): get_valid_credentials on a record whose access token is
\* expired and whose refresh token is absent returns no credentials.
C8_ExpiredWithoutRefreshFails ==
    (last.op = "resolve" /\ last.path = "expired_no_refresh") => last.at = NULL

\* C9: get_valid_credentials on a record with an expired access token and a
\* refresh token runs the refresh exchange exactly once, and when it returns
\* the refreshed Credentials the identity's stored access token is the
\* returned one.
C9_RefreshOncePersisted ==
    /\ (last.op = "resolve" /\ last.path \in {"refreshed", "refresh_failed"}) =>
           last.calls = 1
    /\ (last.op = "resolve" /\ last.path = "refreshed") =>
           /\ last.at \in AccessTokens
           /\ \A r \in users : r.email = last.email => r.access_token = last.at

\* C9 witness: the call has just returned refreshed Credentials and the
\* identity's record holds the returned access token.
C9_Witness ==
    /\ last.op = "resolve"
    /\ last.path = "refreshed"
    /\ last.calls = 1
    /\ SelectTokens(users, last.email) = <<last.at, last.rt>>

\* C10: a step of get_valid_credentials changes the table only in its second
\* transaction (the successful refresh), and there only the access token of
\* the identity it was called for: ids, emails, names, pictures, refresh
\* tokens and every other identity's record stay as they were.
C10_ResolveFrame ==
    [][ResolveStep =>
        \/ users' = users
        \/ /\ pc = "persist"
           /\ last'.path = "refreshed"
           /\ Cardinality(users') = Cardinality(users)
           /\ \A r \in users :
                IF r.email = creds.email
                THEN [r EXCEPT !.access_token = creds.token] \in users'
                ELSE r \in users']_vars

\* C10 witness: a refresh has just been persisted next to another identity's
\* record.
C10_Witness ==
    /\ last.op = "resolve"
    /\ last.path = "refreshed"
    /\ Cardinality(users) = 2
    /\ \E r \in users : r.email # last.email /\ r.access_token # last.at

\* What get_valid_credentials handed to its caller: None, or the Credentials'
\* access and refresh token.
ResolveReturn(l) == IF l.at = NULL THEN NULL ELSE <<l.at, l.rt>>

\* What the caller gets when the identity has no record (`if not row: return None`).
NoCredentialsReturn == NULL

\* C11: when the remote refresh exchange fails, get_valid_credentials leaves
\* the table (so the stored access token) as it was and hands its caller a
\* failure that names the refresh error, something other than what it hands
\* back for an identity without a record.
C11_RefreshFailedReported ==
    [][(ResolveStep /\ last'.path = "refresh_failed") =>
        /\ users' = users
        /\ ResolveReturn(last') # NoCredentialsReturn]_vars

\* ---------------------------------------------------- upload_image_to_drive

\* Cap on the number of generated images kept in st.session_state["images"].
MaxImages == 2

\* What a deployment can leave in GDRIVE_FOLDER_ID: the shipped id, or nothing.
FolderIds == {GDRIVE_FOLDER_ID, ""}

\* item["name"] of the image at an index of st.session_state["images"].
ImageName(idx) == "gen_" \o ToString(idx) \o ".png"

\* File names upload_image_to_drive is called with.
Filenames == { ImageName(idx) : idx \in 1..MaxImages }

\* Answers of the Drive upload endpoint: status code, body text, whether the
\* body parses as JSON and the "id" member of the parsed body (NULL: absent).
Responses ==
    { [status_code |-> 200, text |-> "{id: f1}",     json_ok |-> TRUE,  id |-> "f1"],
      [status_code |-> 200, text |-> "{}",           json_ok |-> TRUE,  id |-> NULL],
      [status_code |-> 200, text |-> "<html>",       json_ok |-> FALSE, id |-> NULL],
      [status_code |-> 403, text |-> "{error: 403}", json_ok |-> TRUE,  id |-> NULL],
      [status_code |-> 500, text |-> "",             json_ok |-> FALSE, id |-> NULL] }

\* Everything outside the program that one upload_image_to_drive call can
\* meet: whether users.db can be read, whether client_secret.json loads,
\* whether google-auth reports the token expired, whether the refresh
\* exchange succeeds and with which token, whether json.dumps / BytesIO
\* accept the arguments, whether requests.post returns, and what it returns.
AllEnvs ==
    [db_ok : BOOLEAN, secret_ok : BOOLEAN, expired : BOOLEAN, remote_ok : BOOLEAN,
     new_token : AccessTokens, build_ok : BOOLEAN, post_ok : BOOLEAN,
     response : Responses]

\* The environment in which nothing fails and nothing has expired.
FairWeather ==
    [db_ok |-> TRUE, secret_ok |-> TRUE, expired |-> FALSE, remote_ok |-> TRUE,
     new_token |-> "at1", build_ok |-> TRUE, post_ok |-> TRUE,
     response |-> [status_code |-> 200, text |-> "{id: f1}",
                   json_ok |-> TRUE, id |-> "f1"]]

\* The environments told apart by what a call can observe: once a step has
\* failed, the later ones are never consulted and stay as in FairWeather.
Envs ==
    { e \in AllEnvs :
        LET resolved == e.db_ok /\ e.secret_ok /\ e.remote_ok
            rest(fields) == \A f \in fields : e[f] = FairWeather[f]
        IN  /\ ~e.db_ok => rest({"secret_ok", "expired", "remote_ok"})
            /\ ~e.secret_ok => rest({"expired", "remote_ok"})
            /\ ~e.expired => rest({"remote_ok"})
            /\ ~(e.expired /\ e.remote_ok) => rest({"new_token"})
            /\ ~resolved => rest({"build_ok", "post_ok", "response"})
            /\ ~e.build_ok => rest({"post_ok", "response"})
            /\ ~e.post_ok => rest({"response"}) }

\* An exception leaving a block of code / a value returned from it.
Raise(exc) == [raised |-> TRUE, exc |-> exc]
Return(value) == [raised |-> FALSE, value |-> value]

\* get_valid_credentials run to completion within one call of its caller:
\* the value it returns (NULL for None, else <<token, refresh_token>>), the
\* table it leaves and the number of refresh exchanges it made.  Only the
\* first SELECT lies outside its try block.
GetValidCredentials(tbl, email, env) ==
    LET row == SelectTokens(tbl, email)
        none(n) == [out |-> Return(NULL), users |-> tbl, refreshes |-> n]
    IN  IF ~env.db_ok
        THEN [out |-> Raise("sqlite3.OperationalError"), users |-> tbl, refreshes |-> 0]
        ELSE IF row = NULL THEN none(0)
        ELSE IF ~env.secret_ok THEN none(0)
        ELSE IF ~NeedsRefresh(env.expired, row[2])
        THEN [out |-> Return(row), users |-> tbl, refreshes |-> 0]
        ELSE IF ~env.remote_ok THEN none(1)
        ELSE LET c == [email |-> email, token |-> env.new_token,
                       refresh_token |-> row[2], calls |-> 1]
             IN  [out |-> Return(<<c.token, c.refresh_token>>),
                  users |-> UpdateAccessToken(tbl, email, TokenToPersist(c)),
                  refreshes |-> 1]

\* Mutant: the `if not creds` test is missing.
NotCredsNever(c) == FALSE

\* `not creds`: a Credentials object is truthy, None is not.
NotCreds(c) == c = NULL

\* Mutant: the error text does not carry the response body.
FailedResultGeneric(text) ==
    [success |-> FALSE, error |-> <<"No valid credentials found">>]

\* Mutant: the failure dict names its text "message", as the success dict does.
FailedResultAsMessage(text) ==
    [success |-> FALSE, message |-> <<"Upload failed: ", text>>]

\* {"success": False, "error": f"Upload failed: {response.text}"}
FailedResult(text) == [success |-> FALSE, error |-> <<"Upload failed: ", text>>]

\* The block under `try:` in upload_image_to_drive: what leaves it (a returned
\* dict or an exception), the table afterwards, and what it did on the way.
UploadBody(tbl, folder, filename, email, env) ==
    LET gvc == GetValidCredentials(tbl, email, env)
        did(out, resolved, posts, status, text) ==
            [out |-> out, users |-> gvc.users, resolved |-> resolved,
             refreshes |-> gvc.refreshes, posts |-> posts,
             parents |-> IF posts = 0 THEN NULL ELSE folder,
             status |-> status, text |-> text]
        r == env.response
    IN  IF gvc.out.raised
        THEN did(gvc.out, "raised", 0, 0, NULL)
        ELSE IF NotCreds(gvc.out.value)
        THEN did(Return([success |-> FALSE,
                         error |-> <<"No valid credentials found">>]),
                 "None", 0, 0, NULL)
        ELSE IF gvc.out.value = NULL   \* creds.token on None
        THEN did(Raise("AttributeError"), "None", 0, 0, NULL)
        ELSE IF ~env.build_ok
        THEN did(Raise("TypeError"), "Credentials", 0, 0, NULL)
        ELSE IF ~env.post_ok
        THEN did(Raise("ConnectionError"), "Credentials", 1, 0, NULL)
        ELSE IF r.status_code = 200
        THEN IF ~r.json_ok
             THEN did(Raise("JSONDecodeError"), "Credentials", 1, r.status_code, r.text)
             ELSE did(Return([success |-> TRUE, file_id |-> r.id,
                              message |-> <<"File '", filename,
                                            "' uploaded successfully!">>]),
                      "Credentials", 1, r.status_code, r.text)
        ELSE did(Return(FailedResult(r.text)), "Credentials", 1, r.status_code, r.text)

\* Mutant: no except clause.
ExceptNothing(out) == out

\* except Exception as e: return {"success": False, "error": str(e)}
ExceptException(out) ==
    IF out.raised THEN Return([success |-> FALSE, error |-> <<out.exc>>]) ELSE out

\* One call of upload_image_to_drive: the table after it, the record of what
\* it did and the dict it returned (the old one when an exception left it).
Upload(tbl, folder, filename, email, env, old_result) ==
    LET body == UploadBody(tbl, folder, filename, email, env)
        out  == ExceptException(body.out)
    IN  [users  |-> body.users,
         up     |-> [done |-> TRUE, email |-> email, filename |-> filename,
                     resolved |-> body.resolved, refreshes |-> body.refreshes,
                     posts |-> body.posts, parents |-> body.parents,
                     status |-> body.status, text |-> body.text,
                     json |-> body.status = 200 /\ env.response.json_ok,
                     id |-> IF body.status = 200 THEN env.response.id ELSE NULL,
                     raised |-> out.raised],
         result |-> IF out.raised THEN old_result ELSE out.value]

\* A call of upload_image_to_drive on its own (no batch is running).
upload_image_to_drive ==
    /\ batch.pc # "loop"
    /\ \E email \in Emails, filename \in Filenames, env \in Envs :
         LET call == Upload(users, folder_id, filename, email, env, result)
         IN  /\ users' = call.users
             /\ up' = call.up
             /\ result' = call.result
    /\ UNCHANGED <<seq, oauth_state, pc, creds, last, folder_id, batch, geom,
                   http, variants, export>>

\* ------------------------------------------ app.py: Save Selected Images

\* The elements of a set of indices in ascending order.
RECURSIVE Ascending(_)
Ascending(S) ==
    IF S = {} THEN <<>>
    ELSE LET m == CHOOSE x \in S : \A y \in S : x <= y
         IN  <<m>> \o Ascending(S \ {m})

\* The lists `selected` can be: the ticked indices, appended in image order;
\* the save section is shown only for a non-empty list.
SelectedLists == { Ascending(S) : S \in (SUBSET (1..MaxImages)) \ {{}} }

\* Mutant: the loop stops at the first failed upload.
NextItemBreakOnFailure(i, n, success) == IF success THEN i + 1 ELSE n + 1

\* The for loop's position after an item: the next one, whatever the result.
NextItem(i, n, success) == i + 1

\* The button press: user_email was read by get_authenticated_user() and is
\* not None; success_count = 0 and the loop is entered.
batch_start ==
    /\ batch.pc # "loop"
    /\ get_authenticated_user # NULL
    /\ \E selected \in SelectedLists :
         batch' = [pc |-> "loop", user_email |-> get_authenticated_user,
                   selected |-> selected, i |-> 1, success_count |-> 0,
                   log |-> <<>>]
    /\ UNCHANGED <<users, seq, oauth_state, pc, creds, last, folder_id, up,
                   result, geom, http, variants, export>>

\* One iteration of `for i, idx in enumerate(selected)`: the upload of
\* st.session_state["images"][idx] and the test of result["success"].  An
\* exception leaving upload_image_to_drive would end the script run.
batch_step ==
    /\ batch.pc = "loop"
    /\ batch.i <= Len(batch.selected)
    /\ \E env \in Envs :
         LET idx  == batch.selected[batch.i]
             call == Upload(users, folder_id, ImageName(idx), batch.user_email,
                            env, result)
         IN  /\ users' = call.users
             /\ up' = call.up
             /\ result' = call.result
             /\ batch' =
                  IF call.up.raised
                  THEN [batch EXCEPT !.pc = "aborted"]
                  ELSE [batch EXCEPT
                          !.success_count = IF call.result.success
                                            THEN @ + 1 ELSE @,
                          !.log = Append(@, [idx |-> idx,
                                             success |-> call.result.success]),
                          !.i = NextItem(@, Len(batch.selected),
                                         call.result.success)]
    /\ UNCHANGED <<seq, oauth_state, pc, creds, last, folder_id, geom,
                   http, variants, export>>

\* The loop is exhausted: "Upload complete! {success_count}/{len(selected)}".
batch_finish ==
    /\ batch.pc = "loop"
    /\ batch.i > Len(batch.selected)
    /\ batch' = [batch EXCEPT !.pc = "done"]
    /\ UNCHANGED <<users, seq, oauth_state, pc, creds, last, folder_id, up,
                   result, geom, http, variants, export>>

\* The stores the uploads start from: empty, or one identity saved by
\* save_manual_tokens with or without a refresh token.
UploadStores ==
    {{}} \cup { UpsertManual({}, 0, "ann@x.org", "at1", rt) :
                  rt \in RefreshTokens \cup {""} }

InitUpload ==
    /\ users \in UploadStores
    /\ seq = Cardinality(users)
    /\ oauth_state = NULL
    /\ pc = "idle"
    /\ creds = NoCreds
    /\ last = Done("init", NULL, "ok", FALSE, NULL, NULL, 0)
    /\ folder_id \in FolderIds
    /\ up = NoUpload
    /\ result = NoResult
    /\ batch = NoBatch
    /\ geom = NoGeom
    /\ http = NoHttp
    /\ variants = NoVariants
    /\ export = NoExport

NextUpload ==
    \/ upload_image_to_drive
    \/ batch_start
    \/ batch_step
    \/ batch_finish

SpecUpload == InitUpload /\ [][NextUpload]_vars

\* C12: a call of upload_image_to_drive always ends by returning a dict whose
\* "success" member is True or False, whatever credential resolution, request
\* construction and the remote call did (raising included); no exception
\* leaves it, so no batch is cut short by one.
C12_UploadNeverRaises ==
    /\ up.done => (~up.raised /\ result.success \in BOOLEAN)
    /\ batch.pc # "aborted"

\* C12 witness: requests.post raised a network error and the call returned
\* success = False with the exception's text.
C12_Witness ==
    /\ up.done
    /\ up.posts = 1
    /\ up.status = 0
    /\ ~up.raised
    /\ result = [success |-> FALSE, error |-> <<"ConnectionError">>]

C14_NoCredentialsNoRequest ==
    (up.done /\ up.resolved \in {"None", "raised"}) =>
        /\ up.posts = 0
        /\ ~result.success
        /\ DOMAIN result = {"success", "error"}
        /\ result.error # <<>>
        /\ up.resolved = "None" =>
               result.error = <<"No valid credentials found">>

\* C14 witness: the refresh exchange failed, get_valid_credentials returned
\* None and the call ended without a request.
C14_Witness ==
    /\ up.done
    /\ up.resolved = "None"
    /\ up.refreshes = 1
    /\ up.posts = 0
    /\ result = [success |-> FALSE, error |-> <<"No valid credentials found">>]

SuccessesIn(log) == Cardinality({ k \in 1..Len(log) : log[k].success })

\* C16: the save loop uploads the selected images one after the other in the
\* order of `selected`, each once, goes on after a failed upload, and when it
\* ends every selected image has been attempted and success_count is the
\* number of uploads that returned success = True.
C16_BatchAttemptsAllInOrder ==
    /\ batch.pc \in {"loop", "done"} =>
          /\ Len(batch.log) = batch.i - 1
          /\ Len(batch.log) <= Len(batch.selected)
          /\ \A k \in 1..Len(batch.log) : batch.log[k].idx = batch.selected[k]
          /\ batch.success_count = SuccessesIn(batch.log)
    /\ batch.pc = "done" => Len(batch.log) = Len(batch.selected)

\* C16 witness: a finished batch of two images whose first upload failed and
\* whose second succeeded.
C16_Witness ==
    /\ batch.pc = "done"
    /\ Len(batch.selected) = 2
    /\ ~batch.log[1].success
    /\ batch.log[2].success
    /\ batch.success_count = 1

\* ------------------------------------------------------ square_to_portrait

\* Cap on the sides of the source images tried besides the print sizes' own.
MaxSide == 20

\* PRINT_SIZES of app.py and posterflow_simple.py (300 DPI, width x height).
PRINT_SIZES ==
    [A3 |-> <<3508, 4961>>, A4 |-> <<2480, 3508>>, A5 |-> <<1748, 2480>>]

\* Widths and heights of the source images: the small ones, and the sides of
\* the print sizes (a source that already has a print size; a source far
\* wider than high, or far higher than wide).
SourceSides ==
    (1..MaxSide) \cup { PRINT_SIZES[k][i] : k \in DOMAIN PRINT_SIZES, i \in 1..2 }

\* Python's float is IEEE-754 binary64: a significand of 53 bits.
Precision == 53

\* The arithmetic below works on groups of 18 binary digits, so that every
\* intermediate product of a group and an image side (below 2^13) is below
\* 2^31.
LimbBits == 18

LimbBase == 2^LimbBits

\* The binary digits of a natural number, most significant first (<<>> for 0).
RECURSIVE IntBits(_)
IntBits(n) == IF n = 0 THEN <<>> ELSE Append(IntBits(n \div 2), n % 2)

\* The natural number with these binary digits.
RECURSIVE BitsToInt(_)
BitsToInt(b) ==
    IF b = <<>> THEN 0
    ELSE 2 * BitsToInt(SubSeq(b, 1, Len(b) - 1)) + b[Len(b)]

\* k zero digits.
Zeros(k) == [i \in 1..k |-> 0]

\* The digits of a number below LimbBase, written with all LimbBits digits.
Limb(n) == Zeros(LimbBits - Len(IntBits(n))) \o IntBits(n)

\* A string of binary digits without the zeros it opens with.
Normalized(b) ==
    IF \A i \in 1..Len(b) : b[i] = 0 THEN <<>>
    ELSE LET p == CHOOSE i \in 1..Len(b) :
                      b[i] = 1 /\ \A j \in 1..(i - 1) : b[j] = 0
         IN  SubSeq(b, p, Len(b))

\* A string of binary digits plus one in its last place (one digit longer
\* when every digit was 1).
Increment(b) ==
    IF \A i \in 1..Len(b) : b[i] = 1 THEN <<1>> \o Zeros(Len(b))
    ELSE LET p == CHOOSE i \in 1..Len(b) :
                      b[i] = 0 /\ \A j \in (i + 1)..Len(b) : b[j] = 1
         IN  SubSeq(b, 1, p - 1) \o <<1>> \o Zeros(Len(b) - p)

\* Rounding to a float, round-half-to-even: `bits` are the leading digits of
\* a positive real, the first one a 1 of weight 2^e, and `sticky` tells
\* whether the real has a non-zero digit after them.  A float is the pair of
\* its 53 significand digits m and the exponent e of the first of them.
RoundToFloat(bits, e, sticky) ==
    IF Len(bits) <= Precision
    THEN [m |-> bits \o Zeros(Precision - Len(bits)), e |-> e]
    ELSE LET keep  == SubSeq(bits, 1, Precision)
             guard == bits[Precision + 1]
             tail  == sticky \/ \E i \in (Precision + 2)..Len(bits) : bits[i] = 1
             up1   == Increment(keep)
         IN  IF guard = 1 /\ (tail \/ keep[Precision] = 1)
             THEN IF Len(up1) > Precision
                  THEN [m |-> SubSeq(up1, 1, Precision), e |-> e + 1]
                  ELSE [m |-> up1, e |-> e]
             ELSE [m |-> keep, e |-> e]

\* n / d on two positive ints below 2^13 (true division): the float nearest
\* to the quotient, from its integer part and four groups of the fraction's
\* digits got by long division.
FloatDiv(n, d) ==
    LET int == IntBits(n \div d)
        r0  == n % d
        r1  == (r0 * LimbBase) % d
        r2  == (r1 * LimbBase) % d
        r3  == (r2 * LimbBase) % d
        r4  == (r3 * LimbBase) % d
        digits == int \o Limb((r0 * LimbBase) \div d) \o Limb((r1 * LimbBase) \div d)
                      \o Limb((r2 * LimbBase) \div d) \o Limb((r3 * LimbBase) \div d)
        lead == Normalized(digits)
    IN  RoundToFloat(lead, Len(int) - 1 - (Len(digits) - Len(lead)), r4 # 0)

\* h * f for a positive int h below 2^13 and a float f: the float nearest to
\* the product, the significand multiplied group by group.
FloatMulInt(h, f) ==
    LET a0 == BitsToInt(SubSeq(f.m, Precision - LimbBits + 1, Precision))
        a1 == BitsToInt(SubSeq(f.m, Precision - 2 * LimbBits + 1, Precision - LimbBits))
        a2 == BitsToInt(SubSeq(f.m, 1, Precision - 2 * LimbBits))
        t0 == a0 * h
        t1 == a1 * h + (t0 \div LimbBase)
        t2 == a2 * h + (t1 \div LimbBase)
        p  == IntBits(t2) \o Limb(t1 % LimbBase) \o Limb(t0 % LimbBase)
    IN  RoundToFloat(p, f.e + (Len(p) - Precision), FALSE)

\* int(f): the float truncated to an int.
FloatToInt(f) == IF f.e < 0 THEN 0 ELSE BitsToInt(SubSeq(f.m, 1, f.e + 1))

\* Mutant: the scale is applied to the side it was computed from.
ScaledSideOfDivisor(side, target_side, divisor) ==
    CHOOSE n \in { FloatToInt(FloatMulInt(divisor, scale)) :
                     scale \in {FloatDiv(target_side, divisor)} } : TRUE

\* scale = target_side / divisor ; int(side * scale).  The scale is a value
\* computed once, then used.
ScaledSide(side, target_side, divisor) ==
    CHOOSE n \in { FloatToInt(FloatMulInt(side, scale)) :
                     scale \in {FloatDiv(target_side, divisor)} } : TRUE

\* img.resize(size, LANCZOS): Pillow refuses a size with a side below 1
\* ("height and width must be > 0"); the result has the size asked for.
Resize(size) ==
    IF size[1] < 1 \/ size[2] < 1 THEN Raise("ValueError") ELSE Return(size)

\* (canvas_side - resized_side) // 2
PasteOffset(canvas_side, resized_side) == (canvas_side - resized_side) \div 2

\* square_to_portrait(img, target_size) for an image of w x h pixels: the
\* exception that leaves it, or the size of the canvas it returns, the size
\* of the resized image and where it was pasted.
square_to_portrait(w, h, target_size) ==
    LET target_w == target_size[1]
        target_h == target_size[2]
        new_h    == ScaledSide(h, target_w, w)
        first    == Resize(<<target_w, new_h>>)
    IN  IF first.raised THEN first
        ELSE LET resized == IF new_h > target_h
                            THEN Resize(<<ScaledSide(w, target_h, h), target_h>>)
                            ELSE first
             IN  IF resized.raised THEN resized
                 ELSE Return([canvas  |-> <<target_w, target_h>>,
                              resized |-> resized.value,
                              at |-> <<PasteOffset(target_w, resized.value[1]),
                                       PasteOffset(target_h, resized.value[2])>>])

\* A call square_to_portrait(img, PRINT_SIZES[size]) runs to its end.
square_to_portrait_call ==
    /\ geom.pc = "called"
    /\ LET out == square_to_portrait(geom.w, geom.h, PRINT_SIZES[geom.size])
       IN  geom' = IF out.raised
                   THEN [geom EXCEPT !.pc = "raised"]
                   ELSE [geom EXCEPT !.pc = "returned",
                                     !.resized = out.value.resized,
                                     !.canvas = out.value.canvas,
                                     !.at = out.value.at]
    /\ UNCHANGED <<users, seq, oauth_state, pc, creds, last, folder_id, up,
                   result, batch, http, variants, export>>

\* The call is made on a decoded image of any of the sizes tried, for any of
\* the three print sizes.
InitGeom ==
    /\ users = {}
    /\ seq = 0
    /\ oauth_state = NULL
    /\ pc = "idle"
    /\ creds = NoCreds
    /\ last = Done("init", NULL, "ok", FALSE, NULL, NULL, 0)
    /\ folder_id = GDRIVE_FOLDER_ID
    /\ up = NoUpload
    /\ result = NoResult
    /\ batch = NoBatch
    /\ geom \in { [NoGeom EXCEPT !.pc = "called", !.w = w, !.h = h, !.size = k] :
                     w \in SourceSides, h \in SourceSides,
                     k \in DOMAIN PRINT_SIZES }
    /\ http = NoHttp
    /\ variants = NoVariants
    /\ export = NoExport

NextGeom == square_to_portrait_call

SpecGeom == InitGeom /\ [][NextGeom]_vars

\* The print size the call in `geom` was made for.
Target == PRINT_SIZES[geom.size]

\* |a - b|
Distance(a, b) == IF a >= b THEN a - b ELSE b - a

\* C17: square_to_portrait returns, for a source of any width and height of
\* at least 1 and each of the three print sizes, a canvas of exactly the
\* print size.
C17_CanvasIsTargetSize ==
    geom.pc # "called" => (geom.pc = "returned" /\ geom.canvas = Target)

\* C18: in the image square_to_portrait returns, the scaled width is the
\* target width and the scaled height floor(h * target_w / w) when that is
\* at most the target height, else the scaled height is the target height
\* and the scaled width floor(w * target_h / h); both scaled sides are at
\* least 1 and at most the target's, and the paste offsets are
\* floor((target_w - scaled_w) / 2) and floor((target_h - scaled_h) / 2),
\* neither negative.
C18_ScaledSizeIsExactFloor ==
    geom.pc = "returned" =>
        LET by_width == (geom.h * Target[1]) \div geom.w
        IN  /\ geom.resized =
                  IF by_width <= Target[2]
                  THEN <<Target[1], by_width>>
                  ELSE <<(geom.w * Target[2]) \div geom.h, Target[2]>>
            /\ \A i \in 1..2 :
                  /\ 1 <= geom.resized[i]
                  /\ geom.resized[i] <= Target[i]
                  /\ geom.at[i] = (Target[i] - geom.resized[i]) \div 2
                  /\ geom.at[i] >= 0

\* C19: in the image square_to_portrait returns, one scaled side is the
\* target's and the other differs from the exactly proportional value
\* (h * target_w / w, or w * target_h / h) by less than one pixel.
C19_AspectRatioWithinOnePixel ==
    geom.pc = "returned" =>
        \/ /\ geom.resized[1] = Target[1]
           /\ Distance(geom.resized[2] * geom.w, geom.h * Target[1]) < geom.w
        \/ /\ geom.resized[2] = Target[2]
           /\ Distance(geom.resized[1] * geom.h, geom.w * Target[2]) < geom.h

\* C20: for a source that already has the print size, square_to_portrait
\* returns a canvas of that size with the image scaled to the same size and
\* pasted at (0, 0).
C20_SameSizeRoundTrip ==
    (geom.pc # "called" /\ <<geom.w, geom.h>> = Target) =>
        /\ geom.pc = "returned"
        /\ geom.canvas = Target
        /\ geom.resized = Target
        /\ geom.at = <<0, 0>>

\* C20 witness: the call for an A3-sized source and the A3 print size has
\* returned.
C20_Witness ==
    /\ geom.pc = "returned"
    /\ geom.size = "A3"
    /\ <<geom.w, geom.h>> = PRINT_SIZES.A3
    /\ geom.resized = <<geom.w, geom.h>>
    /\ geom.at = <<0, 0>>

\* The second transaction of get_valid_credentials.
PersistStep == pc = "persist" /\ pc' = "idle"

\* The id of an identity's record.
IdOf(tbl, email) == (CHOOSE r \in tbl : r.email = email).id

\* C23: get_valid_credentials is not atomic: when an upsert for the same
\* identity was the last transaction committed before its second
\* transaction, the record afterwards holds the access token of the refresh
\* (the upsert's access token is lost) next to the upsert's refresh token.
C23_LostUpdate ==
    [][(PersistStep /\ last.op \in UpsertOps /\ last.email = creds.email
          /\ HasEmail(users, creds.email)) =>
        SelectTokens(users', creds.email) = <<creds.token, last.rt>>]_vars

\* C23 witness: the refresh has been persisted over a record whose refresh
\* token is no longer the one the call had loaded: an upsert came in between,
\* and its access token is gone.
C23_Witness ==
    /\ last.op = "resolve"
    /\ last.path = "refreshed"
    /\ HasEmail(users, last.email)
    /\ SelectTokens(users, last.email)[1] = last.at
    /\ SelectTokens(users, last.email)[2] # last.rt

\* C24: a record for an identity appears only in an upsert for that identity,
\* keeps its id in every step in which it stays (token refresh and
\* re-authorization included), and disappears only in a logout of that
\* identity or in a clear-all.
C24_RecordLifecycle ==
    [][\A e \in Emails :
        /\ (~HasEmail(users, e) /\ HasEmail(users', e)) =>
               (UpsertStep /\ last'.email = e)
        /\ (HasEmail(users, e) /\ HasEmail(users', e)) =>
               IdOf(users', e) = IdOf(users, e)
        /\ (HasEmail(users, e) /\ ~HasEmail(users', e)) =>
               /\ pc' = pc
               /\ \/ last'.op = "logout" /\ last'.email = e
                  \/ last'.op \in {"clear_all_users", "clear_users"}]_vars

\* C24 witness: a record that was re-authorized (updated in place) while a
\* younger record exists: it kept its id.
C24_Witness ==
    /\ last.op \in UpsertOps
    /\ last.existed
    /\ Cardinality(users) = 2
    /\ IdOf(users, last.email) = 1

\* C26: a logout deletes the current identity's record only; afterwards the
\* current identity is that of the remaining record with the greatest id,
\* and there is none only when no other record remains.
C26_LogoutFallsBack ==
    [][(last'.op = "logout" /\ pc' = pc) =>
        LET remaining == { r \in users : r.email # get_authenticated_user }
        IN  /\ last'.email = get_authenticated_user
            /\ users' = remaining
            /\ IF remaining = {}
               THEN get_authenticated_user' = NULL
               ELSE \E r \in remaining :
                      /\ r.email = get_authenticated_user'
                      /\ \A q \in remaining : q.id <= r.id]_vars

\* C26 witness: after a logout somebody else is the current identity.
C26_Witness ==
    /\ last.op = "logout"
    /\ get_authenticated_user # NULL
    /\ get_authenticated_user # last.email

\* C27: ids are never reused: every id in the table is at most the greatest
\* id ever assigned, and an upsert that inserts a row gives it an id above
\* that, so the inserted identity is the current one afterwards.
C27_IdsNeverReused ==
    [][(UpsertStep /\ ~last'.existed) =>
        /\ \A r \in users : r.id <= seq
        /\ seq' = seq + 1
        /\ IdOf(users', last'.email) = seq'
        /\ \A r \in users' : r.id <= seq'
        /\ get_authenticated_user' = last'.email]_vars

\* C27 witness: the only record has id 2: id 1 was assigned before, its
\* record deleted, and the later insert did not take it again.
C27_Witness ==
    /\ last.op \in UpsertOps
    /\ ~last.existed
    /\ Cardinality(users) = 1
    /\ IdOf(users, last.email) = 2

\* C28: when the identity's record is gone at the second transaction of
\* get_valid_credentials (deleted after the first), that transaction changes
\* no row and the identity has no record afterwards.
C28_PersistNeverCreates ==
    [][(PersistStep /\ ~HasEmail(users, creds.email)) =>
        (users' = users /\ ~HasEmail(users', creds.email))]_vars

\* C28 witness: the call returned refreshed Credentials for an identity that
\* has no record any more.
C28_Witness ==
    /\ last.op = "resolve"
    /\ last.path = "refreshed"
    /\ ~HasEmail(users, last.email)

\* The keys the callers read: result["success"], then result["message"] or
\* result["error"] (google_drive.py:417-427, app.py:327-333).
WellFormed(r) ==
    /\ "success" \in DOMAIN r
    /\ IF r.success
       THEN {"file_id", "message"} \subseteq DOMAIN r
       ELSE "error" \in DOMAIN r

\* C30: every dict upload_image_to_drive returns has the key "success", with
\* "file_id" and "message" next to a true one and "error" next to a false one.
C30_ResultWellFormed == (up.done /\ ~up.raised) => WellFormed(result)

\* C30 witness: a call that reached the remote and was refused returned a
\* failure dict, inside a batch whose loop read it.
C30_Witness ==
    /\ up.done
    /\ up.posts = 1
    /\ up.status \notin {0, 200}
    /\ ~result.success
    /\ batch.pc = "loop"
    /\ batch.i > 1

\* --------------------------------------- oauth_helper.py: the two routes

\* What a GET /callback brings and meets: the `state` query parameter
\* (NULL when absent), whether get_oauth_flow() returns a flow, whether
\* flow.fetch_token returns (it raises on a refused code), whether the
\* userinfo request answers 200, whether the sqlite3 calls return (when one
\* raises, nothing has been committed), and what Google answers.
CallbackRequests ==
    { [request_state |-> rs, flow_ok |-> f, fetch_ok |-> t, userinfo_ok |-> u,
       db_ok |-> d, id_info |-> i, token |-> at, refresh_token |-> rt] :
        rs \in States \cup {NULL}, f \in BOOLEAN, t \in BOOLEAN, u \in BOOLEAN,
        d \in BOOLEAN,
        i \in UNION { IdInfos(e) : e \in Emails }, at \in {"at1"},
        rt \in RefreshTokens \cup {NULL} }

\* Mutant: the state file is removed before the token exchange.
StateFileAfterFailureRemoved(stored_state) == NULL

\* oauth_state.txt after a /callback that returned early or raised: nothing
\* on those paths writes or removes it.
StateFileAfterFailure(stored_state) == stored_state

\* The body of the helper's callback(): the response, and the table, the
\* sequence and the state file after it.
CallbackResponse(stored_state, tbl, sq, req) ==
    LET failed(status, body) ==
            [status |-> status, body |-> body, users |-> tbl, seq |-> sq,
             oauth_state |-> StateFileAfterFailure(stored_state)]
    IN  IF StateRejected(stored_state, req.request_state)
        THEN failed(400, "State mismatch error")
        ELSE IF ~req.flow_ok
        THEN failed(500, "Error creating OAuth flow")
        ELSE IF ~req.fetch_ok
        THEN failed(500, "Authentication failed")
        ELSE IF ~req.userinfo_ok
        THEN failed(400, "Failed to get user info")
        ELSE IF ~req.db_ok
        THEN failed(500, "Authentication failed")
        ELSE [status |-> 200, body |-> "Authentication Successful",
              users |-> UpsertWithProfile(tbl, sq, req.id_info, req.token,
                                          req.refresh_token),
              seq |-> NextSeq(tbl, sq, req.id_info.email),
              oauth_state |-> NULL]

\* GET /callback of the helper, with the request and the response kept in
\* `http` (the transition of `callback`, its inputs spelled out).
callback_response ==
    \E req \in CallbackRequests :
      LET out == CallbackResponse(oauth_state, users, seq, req)
      IN  /\ HasEmail(users, req.id_info.email) \/ seq < MaxId
          /\ users' = out.users
          /\ seq' = out.seq
          /\ oauth_state' = out.oauth_state
          /\ http' = [serial |-> 1 - http.serial, route |-> "/callback", stored_state |-> oauth_state,
                      request_state |-> req.request_state,
                      status |-> out.status, body |-> out.body]
          /\ last' = IF out.status = 200
                     THEN Done("callback", req.id_info.email, "ok",
                               HasEmail(users, req.id_info.email),
                               req.token, req.refresh_token, 0)
                     ELSE last
          /\ UNCHANGED <<pc, creds, folder_id, up, result, batch, geom,
                         variants, export>>

InitHelper == Init

NextHelper ==
    \/ start_oauth
    \/ callback_response
    \/ clear_users

SpecHelper == InitHelper /\ [][NextHelper]_vars

\* A step of the helper's /callback, and of its /start_oauth.
CallbackStep == http'.serial # http.serial /\ http'.route = "/callback"
StartStep == http'.serial # http.serial /\ http'.route = "/start_oauth"

\* C22: /callback creates or updates a record only when the request's state
\* is the state /start_oauth stored; with another state, or with no state
\* stored, it rejects the request and the table stays as it is.
C22_CallbackValidatesState ==
    [][CallbackStep =>
        \/ /\ http'.stored_state # NULL
           /\ http'.request_state = http'.stored_state
        \/ /\ http'.status # 200
           /\ users' = users
           /\ seq' = seq]_vars

PrintTargets == <<"A3", "A4", "A5">>

\* The PNG bytes make_print_variants is given, with what happens to them:
\* whether Image.open decodes them, the size of the decoded image, and the
\* target (if any) whose portrait.save raises.  A square image, a sliver
\* 3508 x 1 (its A3 variant is made, resizing for A4 raises ValueError),
\* bytes that are no image, and a square whose A4 encoding fails.
Pngs ==
    { [ok |-> TRUE,  w |-> 1024, h |-> 1024, save_fails |-> NULL],
      [ok |-> TRUE,  w |-> 3508, h |-> 1,    save_fails |-> NULL],
      [ok |-> FALSE, w |-> 0,    h |-> 0,    save_fails |-> NULL],
      [ok |-> TRUE,  w |-> 1024, h |-> 1024, save_fails |-> "A4"] }

\* Mutant: a failing target is caught and the variants made so far returned.
CaughtReturnsOutputs(exc, outputs) == Return(outputs)

\* make_print_variants has no try: an exception raised for one target
\* leaves the function, and the local dict `outputs` with it.
Uncaught(exc, outputs) == Raise(exc)

\* The index at which a loop over 1..n stops: the first one that raises,
\* n + 1 when none does.
FirstRaised(raises, n) ==
    IF \E k \in 1..n : raises[k]
    THEN CHOOSE k \in 1..n : raises[k] /\ \A m \in 1..(k - 1) : ~raises[m]
    ELSE n + 1

\* for size_name, px in PRINT_SIZES.items(), given what square_to_portrait
\* does for each target: the loop runs up to the first target whose
\* square_to_portrait or save raises.  An entry of `outputs` is the key and
\* the size of the JPEG stored under it.
VariantsLoop(png, portrait) ==
    LET n == Len(PrintTargets)
        stop == FirstRaised([k \in 1..n |-> portrait[k].raised
                                             \/ png.save_fails = PrintTargets[k]], n)
        outputs == [k \in 1..(stop - 1) |->
                       [key |-> PrintTargets[k], size |-> portrait[k].value.canvas]]
    IN  IF stop > n
        THEN Return(outputs)
        ELSE Uncaught(IF portrait[stop].raised THEN portrait[stop].exc ELSE "OSError",
                      outputs)

\* make_print_variants(png_bytes): the exception that leaves it, or the
\* dict it returns as the sequence of its items.
make_print_variants(png) ==
    IF ~png.ok
    THEN Raise("UnidentifiedImageError")
    ELSE VariantsLoop(png, [k \in 1..Len(PrintTargets) |->
                square_to_portrait(png.w, png.h, PRINT_SIZES[PrintTargets[k]])])

\* The call make_print_variants(variants.png) runs to its end.
make_print_variants_call ==
    /\ ~variants.done
    /\ variants' = [variants EXCEPT !.done = TRUE,
                                    !.out = make_print_variants(variants.png)]
    /\ UNCHANGED <<users, seq, oauth_state, pc, creds, last, folder_id, up,
                   result, batch, geom, http, export>>

\* The default export folder name, "Run-%Y%m%d-%H%M" of the current time.
FolderNames == {"Run-20260101-0900"}

\* item["name"].replace(".png", "") for the image with index idx.
Stem(idx) == "gen_" \o ToString(idx)

\* The names written to the ZIP for one image: a JPEG per variant, in the
\* order of the dict, then the original PNG.
ZipNames(folder_name, idx, outputs) ==
    [k \in 1..Len(outputs) |->
        folder_name \o "/" \o Stem(idx) \o "_" \o outputs[k].key \o ".jpg"]
    \o <<folder_name \o "/" \o ImageName(idx)>>

\* Mutant: a failing image is skipped and the export goes on.
SkipsImage(exc, zf) == Return(zf)

\* The export has no try either: the exception leaves the `with` block and
\* the script run; the lines after the block are not reached.
LeavesExport(exc, zf) == Raise(exc)

\* parts[1] \o ... \o parts[n]
RECURSIVE Concat(_, _)
Concat(parts, n) == IF n = 0 THEN <<>> ELSE Concat(parts, n - 1) \o parts[n]

\* for idx in selected, given what make_print_variants does for each
\* selected image: the loop runs up to the first image for which it raises;
\* `zip` is the list of names written so far.
ExportLoop(folder_name, selected, v) ==
    LET n == Len(selected)
        parts == [k \in 1..n |->
                    IF v[k].raised THEN <<>>
                    ELSE ZipNames(folder_name, selected[k], v[k].value)]
        stop == FirstRaised([k \in 1..n |-> v[k].raised], n)
    IN  IF stop > n
        THEN [out |-> Return(Concat(parts, n)), zip |-> Concat(parts, n)]
        ELSE LET out == LeavesExport(v[stop].exc, Concat(parts, stop - 1))
             IN  IF out.raised
                 THEN [out |-> out, zip |-> Concat(parts, stop - 1)]
                 ELSE [out |-> Return(Concat(parts, n)), zip |-> Concat(parts, n)]

\* A press of "Export selected as ZIP": with nothing ticked an error
\* message; else the loop, and after it download_bytes with the ZIP.
\* st.session_state["images"] and the ticked indices are in `export`.
export_zip ==
    /\ ~export.done
    /\ \E folder_name \in FolderNames :
         IF export.selected = <<>>
         THEN export' = [export EXCEPT !.done = TRUE,
                                      !.message = "Select at least one image."]
         ELSE LET run == ExportLoop(folder_name, export.selected,
                                    [k \in 1..Len(export.selected) |->
                                       make_print_variants(
                                          export.images[export.selected[k]])])
              IN  export' =
                    [export EXCEPT
                       !.done = TRUE,
                       !.raised = run.out.raised,
                       !.zip = run.zip,
                       !.download = IF run.out.raised THEN <<>>
                                    ELSE <<folder_name \o ".zip", run.out.value>>,
                       !.message = IF run.out.raised THEN NULL
                                   ELSE "ZIP ready. Click to download."]
    /\ UNCHANGED <<users, seq, oauth_state, pc, creds, last, folder_id, up,
                   result, batch, geom, http, variants>>

\* The inputs of the two operations: the bytes make_print_variants is called
\* with, the generated images of the session and the ticked ones.
InitExport ==
    /\ users = {}
    /\ seq = 0
    /\ oauth_state = NULL
    /\ pc = "idle"
    /\ creds = NoCreds
    /\ last = Done("init", NULL, "ok", FALSE, NULL, NULL, 0)
    /\ folder_id = GDRIVE_FOLDER_ID
    /\ up = NoUpload
    /\ result = NoResult
    /\ batch = NoBatch
    /\ geom = NoGeom
    /\ http = NoHttp
    /\ variants \in { [NoVariants EXCEPT !.png = png] : png \in Pngs }
    /\ export \in { [NoExport EXCEPT !.images = images, !.selected = selected] :
                       images \in [1..MaxImages -> Pngs],
                       selected \in SelectedLists \cup {<<>>} }

NextExport ==
    \/ make_print_variants_call
    \/ export_zip

SpecExport == InitExport /\ [][NextExport]_vars

\* Whether some step of make_print_variants fails for these bytes.
VariantsFail(png) ==
    \/ ~png.ok
    \/ png.save_fails # NULL
    \/ \E k \in DOMAIN PRINT_SIZES : square_to_portrait(png.w, png.h, PRINT_SIZES[k]).raised

\* All or nothing: a call for which a target fails raises and hands no dict
\* to its caller; a call that returns hands over three entries.
AllOrNothing ==
    variants.done =>
        IF VariantsFail(variants.png)
        THEN variants.out.raised /\ "value" \notin DOMAIN variants.out
        ELSE ~variants.out.raised /\ Len(variants.out.value) = 3

\* The returned entries, in order, have these keys.
KeysInOrder(keys) ==
    (variants.done /\ ~variants.out.raised) =>
        LET o == variants.out.value
        IN  /\ [k \in 1..Len(o) |-> o[k].key] = keys
            /\ [k \in 1..Len(o) |-> o[k].size] =
                 << <<3508, 4961>>, <<2480, 3508>>, <<1748, 2480>> >>

\* C21 as stated: make_print_variants returns one entry per print target, in
\* configuration order, under the keys "Large", "Medium", "Small" with the
\* sizes 3508x4961, 2480x3508, 1748x2480; a failure for one target fails the
\* call as a whole.
C21_VariantsLargeMediumSmall ==
    AllOrNothing /\ KeysInOrder(<<"Large", "Medium", "Small">>)

\* C21 amended: the same with the keys the code uses, "A3", "A4", "A5" (the
\* keys of PRINT_SIZES).
C21_VariantsPerPrintSize ==
    /\ AllOrNothing
    /\ KeysInOrder(<<"A3", "A4", "A5">>)
    /\ (variants.done /\ ~variants.out.raised) =>
          \A k \in 1..3 :
             /\ variants.out.value[k].key = PrintTargets[k]
             /\ variants.out.value[k].size = PRINT_SIZES[PrintTargets[k]]

\* C21 witness: a call returned its three variants, the A4 one second.
C21_Witness ==
    /\ variants.done
    /\ ~variants.out.raised
    /\ Len(variants.out.value) = 3
    /\ variants.out.value[2] = [key |-> "A4", size |-> <<2480, 3508>>]

\* C25: when make_print_variants fails for one of the selected images, the
\* export ends with that exception and offers no download, however many
\* images were written to the ZIP before; a download that is offered holds
\* the four files of every selected image.
C25_ExportFailFast ==
    export.done =>
        /\ (\E k \in 1..Len(export.selected) :
                VariantsFail(export.images[export.selected[k]])) =>
              /\ export.raised
              /\ export.download = <<>>
              /\ export.message = NULL
        /\ export.download # <<>> =>
              /\ ~export.raised
              /\ Len(export.download[2]) = 4 * Len(export.selected)

\* C25 witness: the export failed at its second image, the files of the
\* first one already written to the ZIP, and nothing is offered.
C25_Witness ==
    /\ export.done
    /\ export.raised
    /\ Len(export.selected) = 2
    /\ Len(export.zip) = 4
    /\ export.download = <<>>

====
